---- MODULE Spec2Model ----
(***************************************************************************)
(* Model of wyoming_vosk/sentences.py: the expansion sampler with its      *)
(* substitution contexts (sample_expression_with_output), the corpus       *)
(* builder (generate_sentences), the per-language cache and store          *)
(* (load_sentences_for_language) and the corrector (correct_sentence).     *)
(*                                                                         *)
(* A text is a sequence of one-character strings: <<"a", " ", "b">> is the *)
(* Python string "a b".  A Python dict is a sequence of <<key, value>>     *)
(* pairs in insertion order.  Python objects that are shared and mutated   *)
(* (the substitution contexts) live in a heap, a sequence of context       *)
(* values; a reference is an index into it.                                *)
(***************************************************************************)
EXTENDS Integers, Sequences, FiniteSets, TLC

VARIABLES
  cache,     \* _CONFIG_CACHE: language -> <<config>>, or <<>> when there is no entry
  store,     \* language -> <<the database file <language>.db>>, or <<>> when there is none
  last,      \* the last call: its arguments, the file it found and what it returned
  sStatus,   \* the sampler's consumer: "idle", "running", "done" or the error raised
  sExpr,     \* the expression handed to sample_expression_with_output
  sPos,      \* how many triples the consumer has pulled
  sHeap,     \* the context objects as they are now
  sGot       \* the triples pulled so far, each with the context the consumer read

vars == <<cache, store, last, sStatus, sExpr, sPos, sHeap, sGot>>
cacheVars == <<cache, store, last>>
sampleVars == <<sStatus, sExpr, sPos, sHeap, sGot>>

(***************************************************************************)
(* Texts                                                                   *)
(***************************************************************************)
RECURSIVE Join(_)
Join(ss) == IF ss = <<>> THEN <<>> ELSE Head(ss) \o Join(Tail(ss))

\* hassil.util.normalize_whitespace: every run of whitespace becomes one space
RECURSIVE normalize_whitespace(_)
normalize_whitespace(s) ==
  IF Len(s) < 2 THEN s
  ELSE IF s[1] = " " /\ s[2] = " " THEN normalize_whitespace(Tail(s))
  ELSE <<s[1]>> \o normalize_whitespace(Tail(s))

(***************************************************************************)
(* Python dicts, in insertion order                                        *)
(***************************************************************************)
Has(d, k) == \E n \in 1..Len(d) : d[n][1] = k
Get(d, k) == d[CHOOSE n \in 1..Len(d) : d[n][1] = k][2]
\* d[k] = v: an existing key keeps its place, a new one goes last
RECURSIVE Put(_, _, _)
Put(d, k, v) ==
  IF d = <<>> THEN << <<k, v>> >>
  ELSE IF Head(d)[1] = k THEN << <<k, v>> >> \o Tail(d)
  ELSE <<Head(d)>> \o Put(Tail(d), k, v)
Keys(d) == {d[n][1] : n \in 1..Len(d)}

\* deepmerge's dict strategy on a dict of strings: keys of nxt override or extend base
RECURSIVE MergeDict(_, _)
MergeDict(base, nxt) ==
  IF nxt = <<>> THEN base
  ELSE MergeDict(Put(base, nxt[1][1], nxt[1][2]), Tail(nxt))

(***************************************************************************)
(* Expressions (hassil.expression), already parsed                         *)
(***************************************************************************)
TextChunk(t) == [k |-> "text", t |-> t, name |-> "", items |-> <<>>]
Alternative(items) == [k |-> "alt", t |-> <<>>, name |-> "", items |-> items]
Group(items) == [k |-> "group", t |-> <<>>, name |-> "", items |-> items]
ListReference(n) == [k |-> "list", t |-> <<>>, name |-> n, items |-> <<>>]
RuleReference(n) == [k |-> "rule", t |-> <<>>, name |-> n, items |-> <<>>]

\* TextSlotValue(text_in, value_out)
TextSlotValue(in, out) == [in |-> in, out |-> out]

(***************************************************************************)
(* Substitution contexts                                                   *)
(***************************************************************************)
\* the default argument {LISTS_KEY: {}, EXP_RULES_KEY: {}}; cur is the
\* CURR_EXP_RULE_KEY entry: <<>> when the key is absent, <<name>> otherwise
EmptyContext == [lists |-> <<>>, rules |-> <<>>, cur |-> <<>>]
InitHeap == <<EmptyContext>>
DefaultRef == 1

\* always_merger.merge(base, nxt) on two contexts; the result replaces base
MergeContext(base, nxt) ==
  [lists |-> MergeDict(base.lists, nxt.lists),
   rules |-> MergeDict(base.rules, nxt.rules),
   cur |-> IF nxt.cur /= <<>> THEN nxt.cur ELSE base.cur]

\* functools.reduce(always_merger.merge, [w[-1] for w in sentence_words]):
\* the first context object is merged into, in place, and returned
RECURSIVE MergeAll(_, _, _)
MergeAll(h, first, rest) ==
  IF rest = <<>> THEN h
  ELSE MergeAll([h EXCEPT ![first] = MergeContext(h[first], h[Head(rest)])],
                first, Tail(rest))

\* the assignments used_substitutions[LISTS_KEY][list_name] = value_out that the
\* enclosing list references make on a yielded context before passing it on
RECURSIVE ApplyPost(_, _, _)
ApplyPost(h, ref, post) ==
  IF post = <<>> THEN h
  ELSE ApplyPost([h EXCEPT ![ref].lists = Put(@, post[1][1], post[1][2])],
                 ref, Tail(post))

(***************************************************************************)
(* itertools.product: leftmost pool varies slowest                         *)
(***************************************************************************)
RECURSIVE Prepend(_, _)
Prepend(x, combos) ==
  IF combos = <<>> THEN <<>>
  ELSE << <<x>> \o Head(combos) >> \o Prepend(x, Tail(combos))

RECURSIVE PrependEach(_, _)
PrependEach(pool, combos) ==
  IF pool = <<>> THEN <<>>
  ELSE Prepend(Head(pool), combos) \o PrependEach(Tail(pool), combos)

\* the product with the rightmost pool varying slowest
RECURSIVE ProductRightmostSlowest(_)
ProductRightmostSlowest(pools) ==
  IF pools = <<>> THEN << <<>> >>
  ELSE LET front == ProductRightmostSlowest(SubSeq(pools, 1, Len(pools) - 1))
           lastPool == pools[Len(pools)]
       IN Join([n \in 1..Len(lastPool) |->
                  [m \in 1..Len(front) |-> Append(front[m], lastPool[n])]])

RECURSIVE Product(_)
Product(pools) ==
  IF pools = <<>> THEN << <<>> >>
  ELSE PrependEach(Head(pools), Product(Tail(pools)))

(***************************************************************************)
(* sample_expression_with_output                                           *)
(*                                                                         *)
(* Gen(e, arg, h, post, env) runs the generator for expression e, called   *)
(* with the context object arg, on heap h.  It returns the error raised    *)
(* ("" for none), the heap when the generator ends, and the triples it     *)
(* yields: input text i, output text o (<<>> is None, <<t>> is the text    *)
(* t), the reference ref of the yielded context object and the heap at the *)
(* moment the triple reaches the consumer.                                 *)
(***************************************************************************)
Triple(i, o, ref, at) == [i |-> i, o |-> o, ref |-> ref, at |-> at]
Result(err, h, ys) == [err |-> err, h |-> h, ys |-> ys]

\* w[0] for w in sentence_words
RECURSIVE Inputs(_)
Inputs(combo) ==
  IF combo = <<>> THEN <<>> ELSE <<Head(combo).i>> \o Inputs(Tail(combo))

\* w[1] for w in sentence_words if w[1] is not None
RECURSIVE Outputs(_)
Outputs(combo) ==
  IF combo = <<>> THEN <<>>
  ELSE (IF Head(combo).o = <<>> THEN <<>> ELSE <<Head(combo).o[1]>>)
       \o Outputs(Tail(combo))

\* w[-1] for w in sentence_words
RECURSIVE Refs(_)
Refs(combo) ==
  IF combo = <<>> THEN <<>> ELSE <<Head(combo).ref>> \o Refs(Tail(combo))

\* the loop over itertools.product in a GROUP: merge, then yield; h is the
\* heap after the merge of the first combination
RECURSIVE Combos(_, _, _, _)
ComboYield(combos, merged, post, acc) ==
  LET h == merged
  IN
    Combos(Tail(combos), h, post,
           Append(acc, Triple(normalize_whitespace(Join(Inputs(Head(combos)))),
                              <<normalize_whitespace(Join(Outputs(Head(combos))))>>,
                              Head(combos)[1].ref, h)))

Combos(combos, h, post, acc) ==
  IF combos = <<>> THEN Result("", h, acc)
  ELSE ComboYield(combos,
                  ApplyPost(MergeAll(h, Head(combos)[1].ref, Tail(Refs(Head(combos)))),
                            Head(combos)[1].ref, post),
                  post, acc)

\* the output texts a list entry with a value_out gives its variants: the
\* value_out for the first, None for the others
RECURSIVE Unlabel(_)
Unlabel(ys) ==
  IF ys = <<>> THEN <<>>
  ELSE <<[Head(ys) EXCEPT !.o = <<>>]>> \o Unlabel(Tail(ys))
Relabel(ys, out) ==
  IF ys = <<>> THEN <<>>
  ELSE <<[Head(ys) EXCEPT !.o = <<out>>]>> \o Unlabel(Tail(ys))

RECURSIVE Gen(_, _, _, _, _)
RECURSIVE AltItems(_, _, _, _, _, _)
RECURSIVE Drain(_, _, _, _, _)
RECURSIVE Entries(_, _, _, _, _, _, _)

\* SequenceType.ALTERNATIVE: yield from each item in turn; r is what the
\* first item's generator did
AltRest(first, items, own, post, env, acc) ==
  LET r == first
  IN
    IF r.err /= "" THEN Result(r.err, r.h, acc \o r.ys)
    ELSE AltItems(Tail(items), own, r.h, post, env, acc \o r.ys)

AltItems(items, own, h, post, env, acc) ==
  IF items = <<>> THEN Result("", h, acc)
  ELSE AltRest(Gen(Head(items), own, h, post, env), items, own, post, env, acc)

\* SequenceType.GROUP: itertools.product exhausts every item's generator
\* first; r is what the first item's generator did
DrainRest(first, items, own, env, pools) ==
  LET r == first
  IN
    IF r.err /= "" THEN [err |-> r.err, h |-> r.h, pools |-> pools]
    ELSE Drain(Tail(items), own, r.h, env, Append(pools, r.ys))

Drain(items, own, h, env, pools) ==
  IF items = <<>> THEN [err |-> "", h |-> h, pools |-> pools]
  ELSE DrainRest(Gen(Head(items), own, h, <<>>, env), items, own, env, pools)

GroupYields(drained, post) ==
  LET d == drained
  IN
    IF d.err /= "" THEN Result(d.err, d.h, <<>>)
    ELSE Combos(Product(d.pools), d.h, post, <<>>)

\* the loop over text_list.values; cur is what used_substitutions is bound to.
\* A value with a value_out: its variants are relabelled, each yielded context
\* gets the list's entry and used_substitutions is left bound to the last one
EntryWithOut(variants, values, name, cur, post, env, acc) ==
  LET r == variants
  IN
    IF r.err /= "" THEN Result(r.err, r.h, acc \o Relabel(r.ys, Head(values).out))
    ELSE Entries(Tail(values), name,
                 IF r.ys = <<>> THEN cur ELSE r.ys[Len(r.ys)].ref,
                 r.h, post, env, acc \o Relabel(r.ys, Head(values).out))

\* a value without a value_out: the entry is set on the context
\* used_substitutions is bound to, then the variants are passed on as they are
EntryWithoutOut(variants, values, name, cur, post, env, acc) ==
  LET r == variants
  IN
    IF r.err /= "" THEN Result(r.err, r.h, acc \o r.ys)
    ELSE Entries(Tail(values), name, cur, r.h, post, env, acc \o r.ys)

Entries(values, name, cur, h, post, env, acc) ==
  IF values = <<>> THEN Result("", h, acc)
  ELSE IF Head(values).out /= <<>>
       THEN EntryWithOut(Gen(Head(values).in, cur, h,
                             << <<name, Head(values).out>> >> \o post, env),
                         values, name, cur, post, env, acc)
       ELSE EntryWithoutOut(Gen(Head(values).in, cur,
                                [h EXCEPT ![cur].lists = Put(@, name, Head(values).out)],
                                post, env),
                            values, name, cur, post, env, acc)

\* a TextChunk: the text is recorded under the current rule, if any, and yielded
TextYield(e, own, recorded, post) ==
  LET h == recorded
  IN
    Result("", ApplyPost(h, own, post),
           <<Triple(e.t, <<e.t>>, own, ApplyPost(h, own, post))>>)

\* own is the call's deepcopy of its used_substitutions argument, h0 the heap with it
GenOwn(e, own, copied, post, env) ==
  LET h0 == copied
  IN
    CASE e.k = "text" ->
           TextYield(e, own,
                     IF h0[own].cur /= <<>>
                     THEN [h0 EXCEPT ![own].rules = Put(@, h0[own].cur[1], e.t)]
                     ELSE h0,
                     post)
      [] e.k = "alt" -> AltItems(e.items, own, h0, post, env, <<>>)
      [] e.k = "group" -> GroupYields(Drain(e.items, own, h0, env, <<>>), post)
      [] e.k = "list" ->
           IF e.name \notin DOMAIN env.lists
           THEN Result("MissingListError", h0, <<>>)
           ELSE Entries(env.lists[e.name], e.name, own, h0, post, env, <<>>)
      [] e.k = "rule" ->
           IF e.name \notin DOMAIN env.rules
           THEN Result("MissingRuleError", h0, <<>>)
           ELSE Gen(env.rules[e.name], own,
                    [h0 EXCEPT ![own].cur = <<e.name>>], post, env)

Gen(e, arg, h, post, env) == GenOwn(e, Len(h) + 1, Append(h, h[arg]), post, env)

sample_expression_with_output(e, env) == Gen(e, DefaultRef, InitHeap, <<>>, env)

(***************************************************************************)
(* __substitute                                                            *)
(***************************************************************************)
\* str.find: the first index at which pat occurs in s, 0 when it does not
IndexOf(s, pat) ==
  LET hits == {n \in 1..(Len(s) - Len(pat) + 1) : SubSeq(s, n, n + Len(pat) - 1) = pat}
  IN IF hits = {} THEN 0 ELSE CHOOSE n \in hits : \A m \in hits : n <= m

\* s.replace(old, new, 1)
Replace1(s, old, new) ==
  LET n == IndexOf(s, old)
  IN IF n = 0 THEN s
     ELSE SubSeq(s, 1, n - 1) \o new \o SubSeq(s, n + Len(old), Len(s))

RECURSIVE ReplaceAll(_, _, _, _)
ReplaceAll(s, d, open, close) ==
  IF d = <<>> THEN s
  ELSE ReplaceAll(Replace1(s, <<open, d[1][1], close>>, d[1][2]), Tail(d), open, close)

substitute(out_sentence, used_substitutions) ==
  ReplaceAll(ReplaceAll(out_sentence, used_substitutions.lists, "{", "}"),
             used_substitutions.rules, "<", ">")

(***************************************************************************)
(* generate_sentences                                                      *)
(*                                                                         *)
(* The YAML document is taken as parsed: sentences is a sequence of        *)
(* templates [ins, out], ins a sequence of input templates [template,      *)
(* text, expr] (template is hassil.intents.is_template of the string, expr *)
(* its parse) and out the "out" text, <<>> when there is none; lists is    *)
(* the dict of the lists, pairs <<name, values>>, each value [template,    *)
(* in, expr, out] (template is is_template of the "in" text of a value     *)
(* given as a mapping, FALSE for a value given as a string, expr the parse *)
(* of the "in" text); rules maps a rule name to its parsed body.           *)
(***************************************************************************)
Plain(text) == [template |-> FALSE, text |-> text, expr |-> TextChunk(text)]
Templated(expr) == [template |-> TRUE, text |-> <<>>, expr |-> expr]
Template(ins, out) == [ins |-> ins, out |-> out]
Row(i, o) == [input_text |-> i, output_text |-> o]

\* a list value whose "in" is taken as it is, and one whose "in" is a template
ListValue(in, out) ==
  [template |-> FALSE, in |-> in, expr |-> TextChunk(in), out |-> out]
ListTemplate(expr, out) ==
  [template |-> TRUE, in |-> <<>>, expr |-> expr, out |-> out]

\* normalize_whitespace("".join(sentence_words)) for every combination
RECURSIVE JoinEach(_)
JoinEach(combos) ==
  IF combos = <<>> THEN <<>>
  ELSE <<normalize_whitespace(Join(Head(combos)))>> \o JoinEach(Tail(combos))

\* hassil.sample.sample_expression(input_expression), called without slot
\* lists and expansion rules: the error raised ("" for none) and the texts
RECURSIVE sample_expression(_)
RECURSIVE SampleAlt(_, _)
RECURSIVE SampleDrain(_, _)

SampleAltRest(first, items, acc) ==
  LET r == first
  IN
    IF r.err /= "" THEN [err |-> r.err, texts |-> acc \o r.texts]
    ELSE SampleAlt(Tail(items), acc \o r.texts)

SampleAlt(items, acc) ==
  IF items = <<>> THEN [err |-> "", texts |-> acc]
  ELSE SampleAltRest(sample_expression(Head(items)), items, acc)

SampleDrainRest(first, items, pools) ==
  LET r == first
  IN
    IF r.err /= "" THEN [err |-> r.err, texts |-> <<>>]
    ELSE SampleDrain(Tail(items), Append(pools, r.texts))

SampleDrain(items, pools) ==
  IF items = <<>> THEN [err |-> "", texts |-> JoinEach(Product(pools))]
  ELSE SampleDrainRest(sample_expression(Head(items)), items, pools)

sample_expression(e) ==
  CASE e.k = "text" -> [err |-> "", texts |-> <<e.t>>]
    [] e.k = "alt" -> SampleAlt(e.items, <<>>)
    [] e.k = "group" -> SampleDrain(e.items, <<>>)
    [] e.k = "list" -> [err |-> "MissingListError", texts |-> <<>>]
    [] e.k = "rule" -> [err |-> "MissingRuleError", texts |-> <<>>]

\* values_in of a list value: the expansions of a template, else the text
ValuesIn(value) ==
  IF value.template THEN sample_expression(value.expr)
  ELSE [err |-> "", texts |-> <<value.in>>]

\* TextSlotValue(TextChunk(value_in), value_out=value_out) for value_in in values_in
RECURSIVE SlotValues(_, _)
SlotValues(values_in, value_out) ==
  IF values_in = <<>> THEN <<>>
  ELSE <<TextSlotValue(TextChunk(Head(values_in)), value_out)>>
       \o SlotValues(Tail(values_in), value_out)

\* the loop over the values of one list
RECURSIVE SlotListValues(_, _)
SlotListRest(first, slot_values, acc) ==
  LET r == first
  IN
    IF r.err /= "" THEN [err |-> r.err, values |-> acc]
    ELSE SlotListValues(Tail(slot_values),
                        acc \o SlotValues(r.texts, Head(slot_values).out))

SlotListValues(slot_values, acc) ==
  IF slot_values = <<>> THEN [err |-> "", values |-> acc]
  ELSE SlotListRest(ValuesIn(Head(slot_values)), slot_values, acc)

\* the loop over the lists: a list without values is skipped; the error raised
\* ("" for none) and slot_lists, a function from the names to the values
RECURSIVE SlotLists(_, _)
SlotListsRest(first, lists, slot_lists) ==
  LET r == first
  IN
    IF r.err /= "" THEN [err |-> r.err, lists |-> slot_lists]
    ELSE SlotLists(Tail(lists),
                   [n \in DOMAIN slot_lists \cup {Head(lists)[1]} |->
                      IF n = Head(lists)[1] THEN r.values ELSE slot_lists[n]])

SlotLists(lists, slot_lists) ==
  IF lists = <<>> THEN [err |-> "", lists |-> slot_lists]
  ELSE IF Head(lists)[2] = <<>> THEN SlotLists(Tail(lists), slot_lists)
  ELSE SlotListsRest(SlotListValues(Head(lists)[2], <<>>), lists, slot_lists)

LoadSlotLists(yaml) == SlotLists(yaml.lists, [n \in {} |-> <<>>])

\* output_text or maybe_output_text or input_text
OutputChoice(output_text, maybe_output_text, input_text) ==
  IF output_text /= <<>> THEN output_text
  ELSE IF maybe_output_text /= <<>> /\ maybe_output_text[1] /= <<>>
       THEN maybe_output_text[1]
       ELSE input_text

\* the rows the loop over the sampler's triples inserts
RECURSIVE TripleRows(_, _)
TripleRows(ys, out) ==
  IF ys = <<>> THEN <<>>
  ELSE <<Row(Head(ys).i,
             substitute(OutputChoice(out, Head(ys).o, Head(ys).i),
                        Head(ys).at[Head(ys).ref]))>>
       \o TripleRows(Tail(ys), out)

SampledRows(run, out) ==
  LET r == run
  IN
    [err |-> r.err, rows |-> TripleRows(r.ys, out)]

\* the rows one input template inserts, and the error that stopped it
InputRows(it, out, env) ==
  IF it.template
  THEN SampledRows(sample_expression_with_output(it.expr, env), out)
  ELSE [err |-> "", rows |-> <<Row(it.text, IF out /= <<>> THEN out ELSE it.text)>>]

RECURSIVE TemplateRows(_, _, _, _)
TemplateRest(first, ins, out, env, acc) ==
  LET r == first
  IN
    IF r.err /= "" THEN [err |-> r.err, rows |-> acc \o r.rows]
    ELSE TemplateRows(Tail(ins), out, env, acc \o r.rows)

TemplateRows(ins, out, env, acc) ==
  IF ins = <<>> THEN [err |-> "", rows |-> acc]
  ELSE TemplateRest(InputRows(Head(ins), out, env), ins, out, env, acc)

\* str.split(): the whitespace-delimited words of a text
RECURSIVE Split(_, _)
Split(s, word) ==
  IF s = <<>> THEN (IF word = <<>> THEN {} ELSE {word})
  ELSE IF Head(s) = " "
       THEN (IF word = <<>> THEN {} ELSE {word}) \cup Split(Tail(s), <<>>)
       ELSE Split(Tail(s), Append(word, Head(s)))

Words(rows) == UNION {Split(rows[n].input_text, <<>>) : n \in 1..Len(rows)}

\* the loop over the templates: a template's rows are committed when the
\* template is done; an error leaves what earlier templates committed
RECURSIVE TemplatesLoop(_, _, _)
TemplatesRest(first, templates, env, committed) ==
  LET r == first
  IN
    IF r.err /= "" THEN [err |-> r.err, sentences |-> committed, words |-> {}]
    ELSE TemplatesLoop(Tail(templates), env, committed \o r.rows)

TemplatesLoop(templates, env, committed) ==
  IF templates = <<>>
  THEN [err |-> "", sentences |-> committed, words |-> Words(committed)]
  ELSE TemplatesRest(TemplateRows(Head(templates).ins, Head(templates).out, env, <<>>),
                     templates, env, committed)

\* an error in the slot lists is raised before any row is inserted
GenerateWith(loaded, yaml) ==
  LET s == loaded
  IN
    IF s.err /= "" THEN [err |-> s.err, sentences |-> <<>>, words |-> {}]
    ELSE TemplatesLoop(yaml.sentences,
                       [lists |-> s.lists, rules |-> yaml.rules], <<>>)

\* the error raised ("" for none) and the rows the database holds afterwards
generate_sentences(yaml) == GenerateWith(LoadSlotLists(yaml), yaml)

(***************************************************************************)
(* correct_sentence                                                        *)
(***************************************************************************)
Min2(a, b) == IF a <= b THEN a ELSE b

\* Levenshtein.distance(s1, s2, weights=(1, 1, 3)): insertion 1, deletion 1,
\* substitution 3
RECURSIVE Distance(_, _)
Distance(s1, s2) ==
  IF s1 = <<>> THEN Len(s2)
  ELSE IF s2 = <<>> THEN Len(s1)
  ELSE Min2(Min2(Distance(Tail(s1), s2) + 1, Distance(s1, Tail(s2)) + 1),
            Distance(Tail(s1), Tail(s2)) + (IF Head(s1) = Head(s2) THEN 0 ELSE 3))

\* rapidfuzz.process.extractOne with a distance scorer: the rows are scanned in
\* order and a row replaces the best so far only when its distance is smaller;
\* <<>> (None) when there is no row, else <<row number, distance>>
\* a scan in which a later row of equal distance replaces the best so far
RECURSIVE extractOneLastWins(_, _, _, _)
extractOneLastWins(query, rows, n, best) ==
  IF n > Len(rows) THEN best
  ELSE LET score == Distance(query, rows[n].input_text)
       IN IF best = <<>> \/ score <= best[2]
          THEN extractOneLastWins(query, rows, n + 1, <<n, score>>)
          ELSE extractOneLastWins(query, rows, n + 1, best)

RECURSIVE extractOne(_, _, _, _)
extractOne(query, rows, n, best) ==
  IF n > Len(rows) THEN best
  ELSE LET score == Distance(query, rows[n].input_text)
       IN IF best = <<>> \/ score < best[2]
          THEN extractOne(query, rows, n + 1, <<n, score>>)
          ELSE extractOne(query, rows, n + 1, best)

\* pattern.match(text) for a pattern without metacharacters: a prefix match
Match(pattern, text) ==
  Len(pattern) <= Len(text) /\ SubSeq(text, 1, Len(pattern)) = pattern

\* db is the database file at config.database_path, <<>> when there is none
correct_sentence(text, config, score_cutoff, db) ==
  IF db = <<>> THEN [err |-> "", text |-> text]
  ELSE IF \E n \in 1..Len(config.no_correct_patterns) :
            Match(config.no_correct_patterns[n], text)
  THEN [err |-> "", text |-> text]
  ELSE LET result == extractOne(text, db[1].sentences, 1, <<>>)
       IN IF result = <<>> THEN [err |-> "TypeError", text |-> <<>>]
          ELSE IF score_cutoff <= 0 \/ result[2] <= score_cutoff
               THEN [err |-> "", text |-> db[1].sentences[result[1]].output_text]
               ELSE [err |-> "", text |-> text]

(***************************************************************************)
(* The grammar files the calls can find                                    *)
(***************************************************************************)
\* lists: {c: [{in: "r", out: "R"}, {in: "(g|h)", out: "G"}]}
ColorList ==
  <<ListValue(<<"r">>, <<"R">>),
    ListTemplate(Group(<<Alternative(<<TextChunk(<<"g">>), TextChunk(<<"h">>)>>)>>),
                 <<"G">>)>>
ColorLists == << <<"c", ColorList>> >>
NoLists == <<>>
NoRules == [n \in {} |-> TextChunk(<<>>)]
Yaml(empty, sentences, lists, patterns) ==
  [empty |-> empty, sentences |-> sentences, lists |-> lists, rules |-> NoRules,
   no_correct_patterns |-> patterns, unknown_text |-> <<>>]

\* empty:  an empty document
\* nosent: lists but no sentences
\* g1: one plain sentence, a bypass pattern
\* g2: a template over a list with an "out" text, then a plain sentence
\* g3: a plain sentence, then a template over the undefined list m
\* g4: one template whose "in" is an empty list
\* g5: a template over the undefined rule n
\* g6: a plain sentence, and a list value whose "in" is a template over the
\*     undefined list m
DocNames == {"empty", "nosent", "g1", "g2", "g3", "g4", "g5", "g6"}
Doc(d) ==
  CASE d = "empty" -> Yaml(TRUE, <<>>, NoLists, <<>>)
    [] d = "nosent" -> Yaml(FALSE, <<>>, ColorLists, <<>>)
    [] d = "g1" -> Yaml(FALSE, <<Template(<<Plain(<<"a", "b">>)>>, <<>>)>>, NoLists,
                        << <<"y">> >>)
    [] d = "g2" -> Yaml(FALSE,
                        <<Template(<<Templated(Group(<<TextChunk(<<"t", " ">>),
                                                       ListReference("c")>>))>>,
                                   <<"{", "c", "}">>),
                          Template(<<Plain(<<"b">>)>>, <<>>)>>,
                        ColorLists, <<>>)
    [] d = "g3" -> Yaml(FALSE,
                        <<Template(<<Plain(<<"a">>)>>, <<>>),
                          Template(<<Templated(Group(<<ListReference("m")>>))>>, <<>>)>>,
                        ColorLists, <<>>)
    [] d = "g4" -> Yaml(FALSE, <<Template(<<>>, <<>>)>>, NoLists, <<>>)
    [] d = "g5" -> Yaml(FALSE,
                        <<Template(<<Templated(Group(<<RuleReference("n")>>))>>, <<>>)>>,
                        NoLists, <<>>)
    [] d = "g6" -> Yaml(FALSE, <<Template(<<Plain(<<"a">>)>>, <<>>)>>,
                        << <<"c", <<ListTemplate(Group(<<ListReference("m")>>),
                                                 <<"X">>)>> >> >>,
                        <<>>)

\* st_size of the file holding each document: nosent and g1, and g2 and g3, are as long
SizeOf(d) ==
  CASE d = "empty" -> 1
    [] d \in {"nosent", "g1"} -> 2
    [] d \in {"g2", "g3"} -> 3
    [] d = "g4" -> 4
    [] d \in {"g5", "g6"} -> 5

\* what generate_sentences does with each document
Builds == [d \in DocNames |-> generate_sentences(Doc(d))]

Langs == {"en", "de"}
ServedLang == "en"
MaxMtime == 2
MaxCutoff == 2
File(m, d) == [mtime |-> m, doc |-> d]
\* <<>>: no file; <<f>>: the file f
FileStates == {<<>>} \cup {<<File(m, d)>> : m \in 1..MaxMtime, d \in DocNames}
Texts == {<<"t">>, <<"a">>, <<"y">>, <<"t", " ", "g">>}
Cutoffs == (-1)..MaxCutoff

(***************************************************************************)
(* load_sentences_for_language                                             *)
(***************************************************************************)
LanguageConfig(mtime, size, path, patterns, unknown) ==
  [sentences_mtime_ns |-> mtime, sentences_file_size |-> size,
   database_path |-> path, no_correct_patterns |-> patterns,
   unknown_text |-> unknown]

\* a comparison that takes the cached mtime for the cached size
CacheHitSizeAgainstMtime(config, f) ==
  /\ config /= <<>>
  /\ f.mtime = config[1].sentences_mtime_ns
  /\ SizeOf(f.doc) = config[1].sentences_mtime_ns

\* the cached config is returned when the file's mtime and size are its own
CacheHit(config, f) ==
  /\ config /= <<>>
  /\ f.mtime = config[1].sentences_mtime_ns
  /\ SizeOf(f.doc) = config[1].sentences_file_size

\* a build into the database file that is there, without the unlink
NewDatabaseKeepingOld(old, built) ==
  IF old = <<>> THEN <<[sentences |-> built.sentences, words |-> built.words]>>
  ELSE <<[sentences |-> old[1].sentences \o built.sentences,
          words |-> old[1].words \cup built.words]>>

\* database_path.unlink, then the new database with what the build committed
NewDatabase(old, built) ==
  <<[sentences |-> built.sentences, words |-> built.words]>>

\* a call as its caller sees it: the arguments, the grammar file found, what was
\* returned (ret, config, result) or raised (err), the database file the call
\* found (before) and whether the call made a new one (rebuilt)
Call(op, lang, file, text, cutoff, ret, err, config, result, before, rebuilt) ==
  [op |-> op, lang |-> lang, file |-> file, text |-> text, cutoff |-> cutoff,
   ret |-> ret, err |-> err, config |-> config, result |-> result,
   before |-> before, rebuilt |-> rebuilt]
NoCall == Call("none", "", <<>>, <<>>, 0, "", "", <<>>, <<>>, <<>>, FALSE)

\* return None after dropping the cache entry and the database file
NoConfigDropping(config, db) ==
  [ret |-> "None", err |-> "", config |-> <<>>, cache |-> <<>>, db |-> <<>>,
   rebuilt |-> FALSE]

\* return None: the cache entry and the database file stay as they are
NoConfig(config, db) ==
  [ret |-> "None", err |-> "", config |-> <<>>, cache |-> config, db |-> db,
   rebuilt |-> FALSE]

\* what the call returns or raises, and the cache entry and database it leaves
LoadOutcome(l, file, config, db) ==
  IF file = <<>> THEN NoConfig(config, db)
  ELSE LET f == file[1]
           yaml == Doc(f.doc)
       IN IF CacheHit(config, f)
          THEN [ret |-> "config", err |-> "", config |-> config, cache |-> config,
                db |-> db, rebuilt |-> FALSE]
          ELSE IF yaml.empty \/ yaml.sentences = <<>>
          THEN NoConfig(config, db)
          ELSE LET new == <<LanguageConfig(f.mtime, SizeOf(f.doc), l,
                                           yaml.no_correct_patterns,
                                           yaml.unknown_text)>>
                   built == Builds[f.doc]
               IN IF built.err /= ""
                  THEN [ret |-> "raised", err |-> built.err, config |-> <<>>,
                        cache |-> config, db |-> NewDatabase(db, built),
                        rebuilt |-> TRUE]
                  ELSE [ret |-> "config", err |-> "", config |-> new,
                        cache |-> new, db |-> NewDatabase(db, built),
                        rebuilt |-> TRUE]

Load(l, file) ==
  LET out == LoadOutcome(l, file, cache[l], store[l])
  IN /\ cache' = [cache EXCEPT ![l] = out.cache]
     /\ store' = [store EXCEPT ![l] = out.db]
     /\ last' = Call("load", l, file, <<>>, 0, out.ret, out.err, out.config, <<>>,
                     store[l], out.rebuilt)
     /\ UNCHANGED sampleVars

\* a caller corrects a transcript with the config the cache holds for a language
Correct(l, text, cutoff) ==
  /\ cache[l] /= <<>>
  /\ LET r == correct_sentence(text, cache[l][1], cutoff,
                               store[cache[l][1].database_path])
     IN last' = Call("correct", l, <<>>, text, cutoff,
                     IF r.err = "" THEN "text" ELSE "raised", r.err, cache[l],
                     <<r.text>>, store[cache[l][1].database_path], FALSE)
  /\ UNCHANGED <<cache, store>>
  /\ UNCHANGED sampleVars

\* the environment removes a database file
RemoveDatabase(l) ==
  /\ store[l] /= <<>>
  /\ store' = [store EXCEPT ![l] = <<>>]
  /\ last' = Call("remove", l, <<>>, <<>>, 0, "", "", <<>>, <<>>, <<>>, FALSE)
  /\ UNCHANGED cache
  /\ UNCHANGED sampleVars

(***************************************************************************)
(* The sampler's inputs: slot lists, expansion rules and expressions       *)
(***************************************************************************)
\* list c: two plain values, each ending in a space; list s: a value starting
\* with a space and a value whose text_in has two variants; list e: a value
\* with an empty value_out.  List m is not defined.
SampleLists ==
  [n \in {"c", "s", "e"} |->
     CASE n = "c" -> <<TextSlotValue(TextChunk(<<"r", " ">>), <<"R">>),
                       TextSlotValue(TextChunk(<<"g", " ">>), <<"G">>)>>
       [] n = "s" -> <<TextSlotValue(TextChunk(<<" ", "x">>), <<"X">>),
                       TextSlotValue(Alternative(<<TextChunk(<<"y">>),
                                                   TextChunk(<<"z">>)>>), <<"Y">>)>>
       [] n = "e" -> <<TextSlotValue(TextChunk(<<"p">>), <<"P">>),
                       TextSlotValue(TextChunk(<<"q">>), <<>>)>>]

\* rule u: two literals, the second an alternative; rule v: a list reference.
\* Rule n is not defined.
SampleRules ==
  [n \in {"u", "v"} |->
     CASE n = "u" -> Group(<<TextChunk(<<"a", " ">>),
                             Alternative(<<TextChunk(<<"b">>), TextChunk(<<"d">>)>>)>>)
       [] n = "v" -> Group(<<ListReference("c")>>)]

SampleEnv == [lists |-> SampleLists, rules |-> SampleRules]

Atoms ==
  {TextChunk(<<"a", " ">>), TextChunk(<<" ", "b">>),
   ListReference("c"), ListReference("s"), ListReference("e"), ListReference("m"),
   RuleReference("u"), RuleReference("v"), RuleReference("n")}
SmallAtoms ==
  {TextChunk(<<"a", " ">>), ListReference("c"), ListReference("s"), RuleReference("u")}
Level1 ==
  Atoms \cup {Alternative(<<x, y>>) : x \in Atoms, y \in Atoms}
        \cup {Group(<<x, y>>) : x \in Atoms, y \in Atoms}
SampleExprs ==
  Level1 \cup {Group(<<x>>) : x \in Level1}
         \cup {Group(<<x, y>>) : x \in SmallAtoms, y \in Level1}
         \cup {Alternative(<<x, y>>) : x \in Level1, y \in SmallAtoms}
         \cup {Group(<<x, y, z>>) : x \in SmallAtoms, y \in SmallAtoms, z \in SmallAtoms}

(***************************************************************************)
(* The consumer of sample_expression_with_output: it pulls one triple at a *)
(* time and reads the triple's context when it gets it (as the loop of     *)
(* generate_sentences does)                                                *)
(***************************************************************************)
\* every run is a function of the expression alone: computed once per expression
SampleRuns == [e \in SampleExprs |-> sample_expression_with_output(e, SampleEnv)]
SRun == SampleRuns[sExpr]

SCall ==
  /\ sStatus = "idle"
  /\ \E e \in SampleExprs : sExpr' = e
  /\ sStatus' = "running"
  /\ sPos' = 0
  /\ sHeap' = InitHeap
  /\ sGot' = <<>>
  /\ UNCHANGED cacheVars

SPull ==
  /\ sStatus = "running"
  /\ LET r == SRun
     IN /\ sPos < Len(r.ys)
        /\ LET y == r.ys[sPos + 1]
           IN /\ sHeap' = y.at
              /\ sGot' = Append(sGot, [i |-> y.i, o |-> y.o, ref |-> y.ref,
                                       used |-> y.at[y.ref]])
  /\ sPos' = sPos + 1
  /\ UNCHANGED <<sStatus, sExpr>>
  /\ UNCHANGED cacheVars

SEnd ==
  /\ sStatus = "running"
  /\ LET r == SRun
     IN /\ sPos = Len(r.ys)
        /\ sStatus' = IF r.err = "" THEN "done" ELSE r.err
        /\ sHeap' = r.h
  /\ UNCHANGED <<sExpr, sPos, sGot>>
  /\ UNCHANGED cacheVars

SampleInit ==
  /\ sStatus = "idle"
  /\ sExpr = TextChunk(<<>>)
  /\ sPos = 0
  /\ sHeap = InitHeap
  /\ sGot = <<>>

CacheInit ==
  /\ cache = [l \in Langs |-> <<>>]
  /\ store = [l \in Langs |-> <<>>]
  /\ last = NoCall

Init == SampleInit /\ CacheInit

SNext == SCall \/ SPull \/ SEnd

SpecSample == Init /\ [][SNext]_vars

\* the cache and the databases of all languages under calls of
\* load_sentences_for_language
Next ==
  \/ \E l \in Langs, file \in FileStates : Load(l, file)
  \/ \E l \in Langs : RemoveDatabase(l)

Spec == Init /\ [][Next]_vars

\* one language under calls of load_sentences_for_language and correct_sentence
CorrectNext ==
  \/ \E file \in FileStates : Load(ServedLang, file)
  \/ \E text \in Texts, cutoff \in Cutoffs : Correct(ServedLang, text, cutoff)
  \/ RemoveDatabase(ServedLang)

SpecCorrect == Init /\ [][CorrectNext]_vars

(***************************************************************************)
(* What a derivation chooses, read off the grammar alone: for every triple *)
(* the expression derives, in enumeration order, its input text i, the     *)
(* list values L chosen on that path (pairs <<list, value_out>>) and the   *)
(* rules R passed through (pairs <<rule, the text its body produced>>).    *)
(* The claims about contexts are stated against it.                        *)
(***************************************************************************)
Path(i, L, R) == [i |-> i, L |-> L, R |-> R]

RECURSIVE Derive(_, _)
RECURSIVE DeriveAlt(_, _, _)
RECURSIVE DeriveGroup(_, _, _)
RECURSIVE DeriveEntries(_, _, _, _)

DeriveAlt(items, env, acc) ==
  IF items = <<>> THEN [err |-> "", ps |-> acc]
  ELSE LET r == Derive(Head(items), env)
       IN IF r.err /= "" THEN [err |-> r.err, ps |-> acc \o r.ps]
          ELSE DeriveAlt(Tail(items), env, acc \o r.ps)

DeriveGroup(items, env, pools) ==
  IF items = <<>>
  THEN LET combos == Product(pools)
       IN [err |-> "",
           ps |-> [n \in 1..Len(combos) |->
                     Path(normalize_whitespace(Join(Inputs(combos[n]))),
                          Join([j \in 1..Len(combos[n]) |-> combos[n][j].L]),
                          Join([j \in 1..Len(combos[n]) |-> combos[n][j].R]))]]
  ELSE LET r == Derive(Head(items), env)
       IN IF r.err /= "" THEN [err |-> r.err, ps |-> <<>>]
          ELSE DeriveGroup(Tail(items), env, Append(pools, r.ps))

DeriveEntries(values, name, env, acc) ==
  IF values = <<>> THEN [err |-> "", ps |-> acc]
  ELSE LET r == Derive(Head(values).in, env)
           ps == [n \in 1..Len(r.ps) |->
                    [r.ps[n] EXCEPT !.L = Append(@, <<name, Head(values).out>>)]]
       IN IF r.err /= "" THEN [err |-> r.err, ps |-> acc \o ps]
          ELSE DeriveEntries(Tail(values), name, env, acc \o ps)

Derive(e, env) ==
  CASE e.k = "text" -> [err |-> "", ps |-> <<Path(e.t, <<>>, <<>>)>>]
    [] e.k = "alt" -> DeriveAlt(e.items, env, <<>>)
    [] e.k = "group" -> DeriveGroup(e.items, env, <<>>)
    [] e.k = "list" ->
         IF e.name \notin DOMAIN env.lists THEN [err |-> "MissingListError", ps |-> <<>>]
         ELSE DeriveEntries(env.lists[e.name], e.name, env, <<>>)
    [] e.k = "rule" ->
         IF e.name \notin DOMAIN env.rules THEN [err |-> "MissingRuleError", ps |-> <<>>]
         ELSE LET r == Derive(env.rules[e.name], env)
              IN [err |-> r.err,
                  ps |-> [n \in 1..Len(r.ps) |->
                            [r.ps[n] EXCEPT !.R = Append(@, <<e.name, r.ps[n].i>>)]]]

SamplePaths == [e \in SampleExprs |-> Derive(e, SampleEnv)]
SPath(n) == SamplePaths[sExpr].ps[n]
Range(q) == {q[n] : n \in 1..Len(q)}
Started == sStatus /= "idle"

\* C2: the context the consumer reads with a triple records only the list
\* values and the rules chosen on that triple's own derivation path, and the
\* context of a triple already pulled is not changed by later enumeration
\* steps.
C2_ContextOnlyOwnPath ==
  Started =>
    \A n \in 1..Len(sGot) :
      /\ Range(sGot[n].used.lists) \subseteq Range(SPath(n).L)
      /\ Keys(sGot[n].used.rules) \subseteq Keys(SPath(n).R)
      /\ sHeap[sGot[n].ref] = sGot[n].used

Once(q, k) == Cardinality({n \in 1..Len(q) : q[n][1] = k}) = 1

\* C9: for every triple whose derivation passes through a rule reference <r>
\* (once), the context's expansion_rules entry for r is the whole text the
\* body of r produced on that derivation, so that __substitute turns the
\* placeholder <r> into that text; nothing is recorded under a rule the
\* derivation did not pass through.
C9_RuleTextRecorded ==
  Started =>
    \A n \in 1..Len(sGot) :
      /\ \A m \in 1..Len(SPath(n).R) :
           LET r == SPath(n).R[m][1]
               text == SPath(n).R[m][2]
           IN Once(SPath(n).R, r) =>
                /\ Has(sGot[n].used.rules, r)
                /\ Get(sGot[n].used.rules, r) = text
                /\ substitute(<<"<", r, ">">>, sGot[n].used) = text
      /\ Keys(sGot[n].used.rules) \subseteq Keys(SPath(n).R)

(***************************************************************************)
(* C8: a concatenation yields the Cartesian product of its children        *)
(***************************************************************************)
\* the expression sampled is a concatenation of expressions of SampleExprs
IsConcatenation ==
  /\ Started
  /\ sExpr.k = "group"
  /\ \A j \in 1..Len(sExpr.items) : sExpr.items[j] \in SampleExprs

\* what each child of the concatenation does when sampled on its own, as a tuple
ChildRuns == [j \in 1..Len(sExpr.items) |-> SampleRuns[sExpr.items[j]]] \o <<>>
NoChildRaises(runs) == \A j \in 1..Len(runs) : runs[j].err = ""

\* c_j * ... * c_k for the children's numbers of triples c_1, ..., c_k
RECURSIVE CountFrom(_, _)
CountFrom(runs, j) ==
  IF j > Len(runs) THEN 1 ELSE Len(runs[j].ys) * CountFrom(runs, j + 1)

\* which triple of child j the n-th combination takes: the leftmost child varies slowest
Digit(runs, n, j) == (((n - 1) \div CountFrom(runs, j + 1)) % Len(runs[j].ys)) + 1
RECURSIVE ChosenFrom(_, _, _)
ChosenFrom(runs, n, j) ==
  IF j > Len(runs) THEN <<>>
  ELSE <<runs[j].ys[Digit(runs, n, j)]>> \o ChosenFrom(runs, n, j + 1)
Chosen(runs, n) == ChosenFrom(runs, n, 1)

\* C8 as amended: a concatenation of children producing c1, ..., ck triples
\* yields c1 * ... * ck triples in Cartesian-product order, leftmost child
\* slowest; each input text is the whitespace-normalised concatenation of the
\* chosen children's input texts, each output text the whitespace-normalised
\* concatenation of their non-absent output texts.
C8_CartesianNormalised ==
  IsConcatenation =>
    LET runs == ChildRuns
    IN NoChildRaises(runs) =>
         /\ sStatus = "done" => Len(sGot) = CountFrom(runs, 1)
         /\ Len(sGot) <= CountFrom(runs, 1)
         /\ \A n \in 1..Len(sGot) :
              /\ sGot[n].i = normalize_whitespace(Join(Inputs(Chosen(runs, n))))
              /\ sGot[n].o = <<normalize_whitespace(Join(Outputs(Chosen(runs, n))))>>

\* C8 as stated: the texts are the plain concatenations
C8_CartesianPlain ==
  IsConcatenation =>
    LET runs == ChildRuns
    IN NoChildRaises(runs) =>
         /\ sStatus = "done" => Len(sGot) = CountFrom(runs, 1)
         /\ Len(sGot) <= CountFrom(runs, 1)
         /\ \A n \in 1..Len(sGot) :
              /\ sGot[n].i = Join(Inputs(Chosen(runs, n)))
              /\ sGot[n].o = <<Join(Outputs(Chosen(runs, n)))>>

\* a finished concatenation of three children with 2, 3 and 2 triples, one of
\* them with an absent output text, and a text that normalisation changed
C8_Witness ==
  /\ IsConcatenation
  /\ sStatus = "done"
  /\ Len(sExpr.items) = 3
  /\ Len(sGot) = 12
  /\ LET runs == ChildRuns
     IN /\ NoChildRaises(runs)
        /\ Len(runs[1].ys) = 2 /\ Len(runs[2].ys) = 3 /\ Len(runs[3].ys) = 2
        /\ \E j \in 1..3 : \E y \in Range(runs[j].ys) : y.o = <<>>
        /\ \E n \in 1..Len(sGot) : sGot[n].i /= Join(Inputs(Chosen(runs, n)))

(***************************************************************************)
(* The cache and the databases                                             *)
(***************************************************************************)
\* the fingerprint of a grammar file and the one a cached config carries
Fingerprint(f) == <<f.mtime, SizeOf(f.doc)>>
CachedFingerprint(config) ==
  <<config[1].sentences_mtime_ns, config[1].sentences_file_size>>
SameFingerprint(config, file) ==
  /\ file /= <<>>
  /\ config /= <<>>
  /\ CachedFingerprint(config) = Fingerprint(file[1])

\* the documents generate_sentences builds a corpus from, and the database a
\* complete generation of document d leaves
Buildable == {d \in DocNames : ~Doc(d).empty /\ Doc(d).sentences /= <<>>}
Generation(d) == <<[sentences |-> Builds[d].sentences, words |-> Builds[d].words]>>
Complete == {Generation(d) : d \in {x \in Buildable : Builds[x].err = ""}}

\* the step is a call load_sentences_for_language(l) that found the file
LoadStep(l, file) ==
  /\ last'.op = "load"
  /\ last'.lang = l
  /\ last'.file = file

\* C1: the database correct_sentence reads through a config is absent or holds
\* every row of one complete corpus generation, never only part of one.
C1_StoreAbsentOrComplete ==
  last.op = "correct" => (last.before = <<>> \/ last.before \in Complete)

\* C3: a call that finds a cached config with the grammar file's mtime and
\* size returns that config and leaves the cache and every database as they
\* were; no database is deleted, created or written.
C3_Step ==
  \A l \in Langs, file \in FileStates :
    LoadStep(l, file) /\ SameFingerprint(cache[l], file) =>
      /\ last'.ret = "config"
      /\ last'.config = cache[l]
      /\ ~last'.rebuilt
      /\ cache' = cache
      /\ store' = store
C3_CacheHitFrame == [][C3_Step]_vars

\* a cache hit on a file whose content is not the one the database was built from
C3_Witness ==
  /\ last.op = "load"
  /\ last.ret = "config"
  /\ ~last.rebuilt
  /\ last.config = cache[last.lang]
  /\ SameFingerprint(cache[last.lang], last.file)
  /\ store[last.lang] /= <<>>
  /\ store[last.lang] /= Generation(last.file[1].doc)

\* C4: whatever the database held before, a call that sees a fingerprint other
\* than the cached one and completes leaves a database holding exactly the
\* rows generated from the new grammar, and a cached config with the new
\* fingerprint.
C4_Step ==
  \A l \in Langs, file \in FileStates :
    LoadStep(l, file) /\ file /= <<>> /\ ~SameFingerprint(cache[l], file)
      /\ last'.ret = "config" =>
        /\ store'[l] = Generation(file[1].doc)
        /\ cache'[l] /= <<>>
        /\ CachedFingerprint(cache'[l]) = Fingerprint(file[1])
        /\ cache'[l] = last'.config
        /\ \A k \in Langs \ {l} : cache'[k] = cache[k] /\ store'[k] = store[k]
C4_RebuildLeavesOnlyNewRows == [][C4_Step]_vars

\* a rebuild over a database that held rows the new grammar does not generate
C4_Witness ==
  /\ last.op = "load"
  /\ last.ret = "config"
  /\ last.rebuilt
  /\ last.before /= <<>>
  /\ \E n \in 1..Len(last.before[1].sentences) :
       last.before[1].sentences[n] \notin Range(store[last.lang][1].sentences)
  /\ last.before[1].words \ store[last.lang][1].words /= {}
  /\ store[last.lang][1].sentences /= <<>>

\* C5: when a template references an undefined list or rule the error comes
\* out of load_sentences_for_language, the cache holds no config with the
\* failed file's fingerprint, and no cached config points to a database
\* holding rows of the aborted build.
C5_AbortedBuildUnbuiltUncached ==
  last.op = "load" /\ last.ret = "raised" =>
    /\ last.err \in {"MissingListError", "MissingRuleError"}
    /\ ~SameFingerprint(cache[last.lang], last.file)
    /\ \A l \in Langs :
         cache[l] /= <<>> /\ store[cache[l][1].database_path] /= <<>> =>
           Range(store[cache[l][1].database_path][1].sentences)
             \cap Range(Builds[last.file[1].doc].sentences) = {}

\* C10: a call that finds no grammar file, or reads one that is empty or has
\* no sentences, returns None and changes nothing: the cache entries and the
\* databases of all languages stay as they were.  (The file is read only
\* when the cached fingerprint is not the file's; a call that does not read
\* it changes nothing either.)
Unusable(file) ==
  file = <<>> \/ Doc(file[1].doc).empty \/ Doc(file[1].doc).sentences = <<>>
C10_Step ==
  \A l \in Langs, file \in FileStates :
    LoadStep(l, file) /\ Unusable(file) =>
      /\ cache' = cache
      /\ store' = store
      /\ ~last'.rebuilt
      /\ (file = <<>> \/ ~SameFingerprint(cache[l], file)) =>
           last'.ret = "None" /\ last'.config = <<>>
C10_UnusableFileChangesNothing == [][C10_Step]_vars

\* an empty grammar file found for a language that has a cached config and a
\* database, while the other language has them too
C10_Witness ==
  /\ last.op = "load"
  /\ last.ret = "None"
  /\ last.file /= <<>>
  /\ Doc(last.file[1].doc).empty
  /\ \A l \in Langs : cache[l] /= <<>> /\ store[l] /= <<>>
  /\ last.before = store[last.lang]

(***************************************************************************)
(* The corrector                                                           *)
(***************************************************************************)
\* the length of a longest common subsequence
RECURSIVE Lcs(_, _)
Lcs(s1, s2) ==
  IF s1 = <<>> \/ s2 = <<>> THEN 0
  ELSE IF Head(s1) = Head(s2) THEN 1 + Lcs(Tail(s1), Tail(s2))
  ELSE IF Lcs(Tail(s1), s2) >= Lcs(s1, Tail(s2)) THEN Lcs(Tail(s1), s2)
  ELSE Lcs(s1, Tail(s2))

\* the edit distance with insertion 1, deletion 1 and substitution 3: a
\* substitution never beats a deletion and an insertion, so the distance is
\* the number of characters outside a longest common subsequence
WeightedDistance(s1, s2) == Len(s1) + Len(s2) - 2 * Lcs(s1, s2)

Bypassed(config, text) ==
  \E n \in 1..Len(config.no_correct_patterns) :
    LET pat == config.no_correct_patterns[n]
    IN Len(pat) <= Len(text) /\ SubSeq(text, 1, Len(pat)) = pat

\* the first row, in scan order, among the rows nearest to the text
Nearest(text, rows) ==
  CHOOSE n \in 1..Len(rows) :
    \A m \in 1..Len(rows) :
      \/ WeightedDistance(text, rows[n].input_text)
           < WeightedDistance(text, rows[m].input_text)
      \/ /\ WeightedDistance(text, rows[n].input_text)
              = WeightedDistance(text, rows[m].input_text)
         /\ n <= m

\* the last correct_sentence call read a database with rows and was not bypassed
Scanned ==
  /\ last.op = "correct"
  /\ last.before /= <<>>
  /\ last.before[1].sentences /= <<>>
  /\ ~Bypassed(last.config[1], last.text)

\* C6: correct_sentence never raises, and returns the text unchanged when the
\* database file is absent, when the text matches a bypass pattern, or when
\* the best distance exceeds a positive cutoff.
C6_NeverRaises ==
  last.op = "correct" =>
    /\ last.err = ""
    /\ (last.before = <<>> \/ Bypassed(last.config[1], last.text)) =>
         last.result = <<last.text>>
    /\ (Scanned /\ last.cutoff > 0
          /\ WeightedDistance(last.text,
               last.before[1].sentences[Nearest(last.text, last.before[1].sentences)]
                 .input_text) > last.cutoff) =>
         last.result = <<last.text>>

\* C7: on a database with at least one row and a text no bypass pattern
\* matches, correct_sentence takes the row of minimum distance (insertion 1,
\* deletion 1, substitution 3), the first in scan order among equals, and
\* returns its output_text when score_cutoff <= 0 or the distance is at most
\* score_cutoff, the text otherwise.
C7_NearestRowAndCutoff ==
  Scanned =>
    LET rows == last.before[1].sentences
        best == Nearest(last.text, rows)
        score == WeightedDistance(last.text, rows[best].input_text)
    IN /\ last.err = ""
       /\ last.result = <<IF last.cutoff <= 0 \/ score <= last.cutoff
                          THEN rows[best].output_text
                          ELSE last.text>>

\* a positive cutoff met by four rows at the same distance, none of them an
\* exact match: the first row's output text came back
C7_Witness ==
  /\ Scanned
  /\ last.cutoff > 0
  /\ Len(last.before[1].sentences) = 4
  /\ \A m \in 1..4 :
       WeightedDistance(last.text, last.before[1].sentences[m].input_text)
         = last.cutoff
  /\ last.result = <<last.before[1].sentences[1].output_text>>
  /\ last.before[1].sentences[1].output_text
       /= last.before[1].sentences[4].output_text
  /\ last.result /= <<last.text>>

====
